---- MODULE Spec2Model ----
(***************************************************************************)
(* A model of the fwdb storage engine (src/src/database.rs): the           *)
(* write-ahead log, the memtable, the flush of the memtable to the SSTable *)
(* file and the lookup path through the memtable and the SSTable handles.  *)
(*                                                                         *)
(* Files are byte sequences.  Strings are sequences of bytes.  The bincode *)
(* encoding is modelled byte for byte: a u64/usize/i64 is 8 little-endian  *)
(* bytes, a String is its u64 length followed by its bytes, a Vec is its   *)
(* u64 element count followed by its elements, a struct is its fields in   *)
(* declaration order.                                                      *)
(***************************************************************************)
EXTENDS Integers, Sequences, FiniteSets, TLC

(***************************************************************************)
(* Bounds of the model.                                                    *)
(***************************************************************************)
\* The number of Database::set calls in a run without failing system calls.
MaxSets == 3
\* The number of Database::set calls in a run of the probing specification.
MaxProbeSets == 2
\* The number of Database::set calls in a run in which system calls can
\* fail and the process can be killed.
MaxFaultSets == 2
\* The number of injected events in a run: failing system calls and kills of
\* the process.
MaxInjected == 1
\* The largest block_size of the round-trip specification.
MaxBlockSize == 6

\* "a", "ab", "b"
Keys == {<<97>>, <<97, 98>>, <<98>>}
\* "1", "22"
Values == {<<49>>, <<50, 50>>}
MemtableSizes == {2, 4, 8}
BlockSizes == {2, 4}
DbName == "hello"

None == <<>>
Some(x) == <<x>>
IsSome(o) == o # <<>>
Unwrap(o) == o[1]

(***************************************************************************)
(* String order: Rust's Ord for String is the lexicographic order of the   *)
(* bytes.                                                                  *)
(***************************************************************************)
RECURSIVE StrLess(_, _)
StrLess(a, b) ==
    IF b = <<>> THEN FALSE
    ELSE IF a = <<>> THEN TRUE
    ELSE IF Head(a) < Head(b) THEN TRUE
    ELSE IF Head(a) > Head(b) THEN FALSE
    ELSE StrLess(Tail(a), Tail(b))

StrLeq(a, b) == a = b \/ StrLess(a, b)

(***************************************************************************)
(* bincode, encoding.                                                      *)
(***************************************************************************)
EncU64(n) ==
    <<n % 256, (n \div 256) % 256, (n \div 65536) % 256,
      (n \div 16777216) % 256, 0, 0, 0, 0>>

EncString(s) == EncU64(Len(s)) \o s

EncKVPair(p) == EncString(p.k) \o EncString(p.v)

RECURSIVE EncPairs(_)
EncPairs(ps) ==
    IF ps = <<>> THEN <<>> ELSE EncKVPair(Head(ps)) \o EncPairs(Tail(ps))

EncBlock(b) == EncU64(b.len) \o EncU64(Len(b.content)) \o EncPairs(b.content)

EncIndexEntry(e) == EncString(e.key) \o EncU64(e.off)

RECURSIVE EncEntries(_)
EncEntries(es) ==
    IF es = <<>> THEN <<>> ELSE EncIndexEntry(Head(es)) \o EncEntries(Tail(es))

EncIndexBlock(idx) == EncU64(Len(idx)) \o EncEntries(idx)

\* Mutant: the size without the 8 bytes of the first length field.
M_serialized_size(bytes) == Len(bytes) - 8

\* bincode::serialized_size: the number of bytes the encoding takes.
serialized_size(bytes) == Len(bytes)

(***************************************************************************)
(* bincode, decoding from a file f at the 0-based position p.  A decoder   *)
(* yields [ok, val, pos]: ok is FALSE when the bytes run out, a length     *)
(* cannot be satisfied or the bytes of a String are not UTF-8; pos is the  *)
(* position of the file handle afterwards (the decoder reads the File with *)
(* read_exact, without a buffer, so a read that runs out of bytes leaves   *)
(* the handle at the end of the file).  Numbers up to 2^31 - 3 are read    *)
(* exactly.  The greater u64 fall in two classes, each of which exceeds    *)
(* every file of the model: Huge stands for those below 2^63 and HugeTop   *)
(* for those from 2^63 on, which are negative as an i64 or off_t.          *)
(***************************************************************************)
Huge == 2147483646

HugeTop == 2147483647

\* The i64 below -(2^31 - 3).
NegHuge == -2147483647

DecFailAt(p) == [ok |-> FALSE, val |-> <<>>, pos |-> p]

\* The ? of a decoder: go on with the result r when it is ok, fail otherwise.
Bind(r, F(_)) == IF ~r.ok THEN r ELSE F(r)

\* let x = v; ...
With(v, F(_)) == F(v)

\* The low four bytes at p as a number, for a fourth byte below 128.
Low32(f, p) ==
    f[p + 1] + 256 * f[p + 2] + 65536 * f[p + 3] + 16777216 * f[p + 4]

DecU64(f, p) ==
    IF p > Len(f) - 8 THEN DecFailAt(IF p > Len(f) THEN p ELSE Len(f))
    ELSE [ok |-> TRUE,
          val |-> IF f[p + 8] >= 128 THEN HugeTop
                  ELSE IF f[p + 4] >= 128 \/ \E i \in 5..8 : f[p + i] # 0
                       THEN Huge
                  ELSE With(Low32(f, p), LAMBDA n :
                            IF n >= Huge THEN Huge ELSE n),
          pos |-> p + 8]

\* The low four bytes at p of a negative i64 whose high four bytes are 255,
\* for a fourth byte from 128 on.
LowNeg32(f, p) ==
    f[p + 1] + 256 * f[p + 2] + 65536 * f[p + 3] + 16777216 * (f[p + 4] - 256)

\* An i64: the u64 from 2^63 on are the negative numbers.
DecI64(f, p) ==
    IF p > Len(f) - 8 THEN DecFailAt(IF p > Len(f) THEN p ELSE Len(f))
    ELSE [ok |-> TRUE,
          val |-> IF f[p + 8] < 128 THEN DecU64(f, p).val
                  ELSE IF f[p + 4] < 128 \/ \E i \in 5..8 : f[p + i] # 255
                       THEN NegHuge
                  ELSE With(LowNeg32(f, p), LAMBDA n :
                            IF n <= NegHuge + 1 THEN NegHuge ELSE n),
          pos |-> p + 8]

\* b is a continuation byte within lo..hi.
Cont(s, i, lo, hi) == i <= Len(s) /\ s[i] >= lo /\ s[i] <= hi

\* String::from_utf8 accepts the bytes of s from index i on: well-formed
\* UTF-8, no overlong forms, no surrogates, nothing above U+10FFFF.
RECURSIVE IsUtf8From(_, _)
IsUtf8From(s, i) ==
    IF i > Len(s) THEN TRUE
    ELSE IF s[i] < 128 THEN IsUtf8From(s, i + 1)
    ELSE IF s[i] >= 194 /\ s[i] <= 223
         THEN Cont(s, i + 1, 128, 191) /\ IsUtf8From(s, i + 2)
    ELSE IF s[i] >= 224 /\ s[i] <= 239
         THEN /\ Cont(s, i + 1, IF s[i] = 224 THEN 160 ELSE 128,
                               IF s[i] = 237 THEN 159 ELSE 191)
              /\ Cont(s, i + 2, 128, 191)
              /\ IsUtf8From(s, i + 3)
    ELSE IF s[i] >= 240 /\ s[i] <= 244
         THEN /\ Cont(s, i + 1, IF s[i] = 240 THEN 144 ELSE 128,
                               IF s[i] = 244 THEN 143 ELSE 191)
              /\ Cont(s, i + 2, 128, 191)
              /\ Cont(s, i + 3, 128, 191)
              /\ IsUtf8From(s, i + 4)
    ELSE FALSE

IsUtf8(s) == IsUtf8From(s, 1)

DecString(f, p) ==
    Bind(DecU64(f, p), LAMBDA l :
         IF l.val > Len(f) - l.pos THEN DecFailAt(Len(f))
         ELSE IF ~IsUtf8(SubSeq(f, l.pos + 1, l.pos + l.val))
              THEN DecFailAt(l.pos + l.val)
         ELSE [ok |-> TRUE,
               val |-> SubSeq(f, l.pos + 1, l.pos + l.val),
               pos |-> l.pos + l.val])

DecKVPair(f, p) ==
    Bind(DecString(f, p), LAMBDA k :
    Bind(DecString(f, k.pos), LAMBDA v :
         [ok |-> TRUE, val |-> [k |-> k.val, v |-> v.val], pos |-> v.pos]))

RECURSIVE DecPairs(_, _, _)
DecPairs(f, p, n) ==
    IF n = 0 THEN [ok |-> TRUE, val |-> <<>>, pos |-> p]
    ELSE Bind(DecKVPair(f, p), LAMBDA e :
         Bind(DecPairs(f, e.pos, n - 1), LAMBDA r :
              [ok |-> TRUE, val |-> <<e.val>> \o r.val, pos |-> r.pos]))

DecBlock(f, p) ==
    Bind(DecU64(f, p), LAMBDA l :
    Bind(DecU64(f, l.pos), LAMBDA n :
    Bind(DecPairs(f, n.pos, n.val), LAMBDA c :
         [ok |-> TRUE,
          val |-> [len |-> l.val, content |-> c.val],
          pos |-> c.pos])))

DecIndexEntry(f, p) ==
    Bind(DecString(f, p), LAMBDA k :
    Bind(DecU64(f, k.pos), LAMBDA o :
         [ok |-> TRUE, val |-> [key |-> k.val, off |-> o.val], pos |-> o.pos]))

RECURSIVE DecEntries(_, _, _)
DecEntries(f, p, n) ==
    IF n = 0 THEN [ok |-> TRUE, val |-> <<>>, pos |-> p]
    ELSE Bind(DecIndexEntry(f, p), LAMBDA e :
         Bind(DecEntries(f, e.pos, n - 1), LAMBDA r :
              [ok |-> TRUE, val |-> <<e.val>> \o r.val, pos |-> r.pos]))

DecIndexBlock(f, p) ==
    Bind(DecU64(f, p), LAMBDA n : DecEntries(f, n.pos, n.val))

(***************************************************************************)
(* KVPair, Block, IndexBlock.                                              *)
(***************************************************************************)
KVPair_new(k, v) == [k |-> k, v |-> v]

KVPair_len(p) == Len(p.k) + Len(p.v)

Block_new == [len |-> 0, content |-> <<>>]

\* Mutant: the record is put in front of the records of the block.
M_Block_insert(b, p) ==
    [len |-> b.len + KVPair_len(p), content |-> <<p>> \o b.content]

Block_insert(b, p) ==
    [len |-> b.len + KVPair_len(p), content |-> Append(b.content, p)]

\* Mutant: a block without records has the empty string as its first key.
M_Block_first_key(b) ==
    IF b.content = <<>> THEN Some(<<>>) ELSE Some(b.content[1].k)

Block_first_key(b) ==
    IF b.content = <<>> THEN None ELSE Some(b.content[1].k)

\* slice::binary_search_by: base and size are narrowed until size is 1, then
\* the element at base is compared.  Indices here are 0-based as in the code.
RECURSIVE binary_search_loop(_, _, _, _)
binary_search_loop(content, key, base, size) ==
    IF size > 1
    THEN LET half == size \div 2
             mid == base + half
             greater == StrLess(key, content[mid + 1].k)
         IN binary_search_loop(content, key,
                               IF greater THEN base ELSE mid, size - half)
    ELSE IF content[base + 1].k = key THEN Some(base) ELSE None

binary_search_by(content, key) ==
    IF content = <<>> THEN None
    ELSE binary_search_loop(content, key, 0, Len(content))

Block_get(b, key) ==
    With(binary_search_by(b.content, key), LAMBDA i :
         IF IsSome(i) THEN Some(b.content[Unwrap(i) + 1].v) ELSE None)

\* f.seek(SeekFrom::Start(off)) on a handle at pos: the position afterwards.
\* lseek rejects an offset that is negative as an off_t, and one beyond what
\* the file system allows; a rejected seek leaves the handle where it was.
\* seekOk: the file system allows the offsets of the class Huge.
SeekStart(pos, off, seekOk) ==
    IF off = HugeTop \/ (off = Huge /\ ~seekOk) THEN pos ELSE off

\* Block::from_file on a handle at pos: the result of the seek is dropped,
\* one block is decoded where the handle then is; a decode error is
\* unwrapped, which panics (ok = FALSE).
Block_from_file(f, pos, off, seekOk) == DecBlock(f, SeekStart(pos, off, seekOk))

IndexBlock_new == <<>>

\* Mutant: the entry is put in front of the entries (Vec::insert(0, ..)).
M_IndexBlock_insert(idx, s, off) == <<[key |-> s, off |-> off]>> \o idx

IndexBlock_insert(idx, s, off) == Append(idx, [key |-> s, off |-> off])

\* The entries taken while k >= entry.key; the offset of the last of them.
RECURSIVE get_offset_loop(_, _, _)
get_offset_loop(content, k, elm) ==
    IF content = <<>> THEN elm
    ELSE IF StrLeq(Head(content).key, k)
         THEN get_offset_loop(Tail(content), k, Some(Head(content).off))
         ELSE elm

\* Mutant: the entries are taken while k > entry.key.
RECURSIVE M_get_offset_loop(_, _, _)
M_get_offset_loop(content, k, elm) ==
    IF content = <<>> THEN elm
    ELSE IF StrLess(Head(content).key, k)
         THEN M_get_offset_loop(Tail(content), k, Some(Head(content).off))
         ELSE elm

M_IndexBlock_get_offset_for(idx, k) == M_get_offset_loop(idx, k, None)

\* Mutant: the offset of the first entry is returned when its key is at most
\* k (the search stops at the first entry taken, not at the last).
M_IndexBlock_get_offset_first(idx, k) ==
    IF idx # <<>> /\ StrLeq(idx[1].key, k) THEN Some(idx[1].off) ELSE None

IndexBlock_get_offset_for(idx, k) == get_offset_loop(idx, k, None)

\* f.seek(SeekFrom::End(-n)) on a handle at pos, file of length flen: the
\* position afterwards.  lseek rejects a negative position and one beyond
\* what the file system allows (seekOk: it allows those of the class Huge);
\* a rejected seek leaves the handle where it was.  -(len + idx_size)
\* overflows for the greatest idx_size; whether that wraps or panics, the
\* handle stays at the end of the file and the call ends in a panic.
SeekEnd(pos, flen, n, seekOk) ==
    IF n = Huge THEN pos
    ELSE IF n = NegHuge \/ (n < 0 /\ -n >= Huge - flen)
         THEN (IF seekOk THEN Huge ELSE pos)
    ELSE IF flen - n < 0 THEN pos
    ELSE flen - n

\* IndexBlock::from_file on a handle at pos.  The results of both seeks are
\* dropped.  Both decodes are unwrapped: ok = FALSE is a panic.
IndexBlock_from_file(f, pos, seekOk) ==
    With(8, LAMBDA len :
    Bind(DecI64(f, SeekEnd(pos, Len(f), len, seekOk)), LAMBDA idx_size :
         DecIndexBlock(f, SeekEnd(idx_size.pos, Len(f),
                                  IF idx_size.val = NegHuge THEN NegHuge
                                  ELSE IF idx_size.val >= Huge - len THEN Huge
                                  ELSE len + idx_size.val, seekOk))))

(***************************************************************************)
(* Results of SSTable::get and Database::get.                              *)
(***************************************************************************)
Ok(v) == [kind |-> "Ok", val |-> v]
NotFound == [kind |-> "NotFound", val |-> <<>>]
IOError == [kind |-> "IOError", val |-> <<>>]
Panic == [kind |-> "Panic", val |-> <<>>]

(***************************************************************************)
(* SSTable: a handle with a lazily opened file and a lazily loaded index.  *)
(* file is TRUE once the file is open and pos is then the position of the  *)
(* File; an open handle reads the current bytes of the file of that name.  *)
(***************************************************************************)
SSTable_new(filename) ==
    [idx |-> None, file |-> FALSE, pos |-> 0, filename |-> filename]

\* The index of the handle: the cached one, else the one read from the file.
SSTable_index(s, f, seekOk) ==
    IF IsSome(s.idx) THEN [ok |-> TRUE, val |-> Unwrap(s.idx), pos |-> s.pos]
    ELSE IndexBlock_from_file(f, s.pos, seekOk)

\* The end of SSTable::get: the block at off is read and searched.
SSTable_read(s, f, key, off, seekOk) ==
    IF off = None THEN [res |-> NotFound, sst |-> s]
    ELSE With(Block_from_file(f, s.pos, Unwrap(off), seekOk), LAMBDA b :
         IF ~b.ok THEN [res |-> Panic, sst |-> [s EXCEPT !.pos = b.pos]]
         ELSE With(Block_get(b.val, key), LAMBDA v :
              [res |-> IF IsSome(v) THEN Ok(Unwrap(v)) ELSE NotFound,
               sst |-> [s EXCEPT !.pos = b.pos]]))

\* SSTable::get.  openFails: File::open fails for this call.  seekOk: the
\* file system allows the offsets of the class Huge.
SSTable_get(s, fs, key, openFails, seekOk) ==
    IF ~s.file /\ (openFails \/ s.filename \notin DOMAIN fs)
    THEN [res |-> IOError, sst |-> s]
    ELSE With(SSTable_index(s, fs[s.filename], seekOk), LAMBDA loaded :
         IF ~loaded.ok
         THEN [res |-> Panic,
               sst |-> [s EXCEPT !.file = TRUE, !.pos = loaded.pos]]
         ELSE SSTable_read([s EXCEPT !.file = TRUE, !.idx = Some(loaded.val),
                                     !.pos = loaded.pos],
                           fs[s.filename], key,
                           IndexBlock_get_offset_for(loaded.val, key), seekOk))

(***************************************************************************)
(* Memtable.                                                               *)
(***************************************************************************)
EmptyTable == [x \in {} |-> <<>>]

Memtable_new(block_size) ==
    [table |-> EmptyTable, len |-> 0, block_size |-> block_size]

\* Mutant: the length of the entry an insert replaces is taken off len.
M_Memtable_insert_len(m, k, v) ==
    [m EXCEPT !.len = m.len + Len(k) + Len(v)
                        - (IF k \in DOMAIN m.table
                           THEN Len(k) + Len(m.table[k]) ELSE 0),
              !.table = [x \in DOMAIN m.table \cup {k} |->
                            IF x = k THEN v ELSE m.table[x]]]

\* Mutant: an entry that exists is kept (the insert of entry().or_insert()).
M_Memtable_insert(m, k, v) ==
    [m EXCEPT !.len = m.len + Len(k) + Len(v),
              !.table = [x \in DOMAIN m.table \cup {k} |->
                            IF x \in DOMAIN m.table THEN m.table[x] ELSE v]]

Memtable_insert(m, k, v) ==
    [m EXCEPT !.len = m.len + Len(k) + Len(v),
              !.table = [x \in DOMAIN m.table \cup {k} |->
                            IF x = k THEN v ELSE m.table[x]]]

\* The keys of a BTreeMap in iteration order (ascending).
RECURSIVE SortedKeys(_)
SortedKeys(S) ==
    IF S = {} THEN <<>>
    ELSE LET m == CHOOSE x \in S : \A y \in S : StrLeq(x, y)
         IN <<m>> \o SortedKeys(S \ {m})

\* Mutant: the block is closed when it is already over block_size, not when
\* the next record would take it over.
RECURSIVE M_to_blocks_loop(_, _, _, _, _)
M_to_blocks_loop(table, ks, b, blocks, block_size) ==
    IF ks = <<>> THEN Append(blocks, b)
    ELSE LET key == Head(ks)
             value == table[key]
             full == b.len > block_size
         IN M_to_blocks_loop(table, Tail(ks),
                             Block_insert(IF full THEN Block_new ELSE b,
                                          KVPair_new(key, value)),
                             IF full THEN Append(blocks, b) ELSE blocks,
                             block_size)

RECURSIVE to_blocks_loop(_, _, _, _, _)
to_blocks_loop(table, ks, b, blocks, block_size) ==
    IF ks = <<>> THEN Append(blocks, b)
    ELSE LET key == Head(ks)
             value == table[key]
             full == b.len + Len(key) + Len(value) > block_size
         IN to_blocks_loop(table, Tail(ks),
                           Block_insert(IF full THEN Block_new ELSE b,
                                        KVPair_new(key, value)),
                           IF full THEN Append(blocks, b) ELSE blocks,
                           block_size)

M_Memtable_to_blocks(m) ==
    M_to_blocks_loop(m.table, SortedKeys(DOMAIN m.table), Block_new, <<>>,
                     m.block_size)

Memtable_to_blocks(m) ==
    to_blocks_loop(m.table, SortedKeys(DOMAIN m.table), Block_new, <<>>,
                   m.block_size)

(***************************************************************************)
(* Log.                                                                    *)
(***************************************************************************)
\* Mutant: the log is opened without append, so a record replaces the log.
M_Log_record(log, key, value, fails) ==
    IF fails THEN log ELSE EncKVPair(KVPair_new(key, value))

\* Log::record: the encoded pair is appended; the results of write_all and
\* sync_data are dropped.  fails: the write fails and appends nothing.
Log_record(log, key, value, fails) ==
    IF fails THEN log ELSE log \o EncKVPair(KVPair_new(key, value))

\* Log::recover_memtable: pairs are decoded from the start of the log and
\* inserted until a decode fails.
RECURSIVE recover_loop(_, _, _)
recover_loop(log, p, memtable) ==
    With(DecKVPair(log, p), LAMBDA d :
         IF ~d.ok THEN memtable
         ELSE recover_loop(log, d.pos,
                           Memtable_insert(memtable, d.val.k, d.val.v)))

Log_recover_memtable(log, block_size) ==
    recover_loop(log, 0, Memtable_new(block_size))

(***************************************************************************)
(* Database.                                                               *)
(***************************************************************************)
LogFilename(name) == name \o ".log"

\* The name Database::set gives the SSTable file of every flush.
DbFilename(name) == name \o ".db"

\* The write calls serialize_into makes on the File, which has no buffer:
\* one write_all per number and one per string that is not empty, in the
\* order of the encoding.
StringWrites(str) ==
    <<EncU64(Len(str))>> \o (IF str = <<>> THEN <<>> ELSE <<str>>)

KVPairWrites(p) == StringWrites(p.k) \o StringWrites(p.v)

RECURSIVE PairsWrites(_)
PairsWrites(ps) ==
    IF ps = <<>> THEN <<>> ELSE KVPairWrites(Head(ps)) \o PairsWrites(Tail(ps))

BlockWrites(b) ==
    <<EncU64(b.len), EncU64(Len(b.content))>> \o PairsWrites(b.content)

IndexEntryWrites(e) == StringWrites(e.key) \o <<EncU64(e.off)>>

RECURSIVE EntriesWrites(_)
EntriesWrites(es) ==
    IF es = <<>> THEN <<>>
    ELSE IndexEntryWrites(Head(es)) \o EntriesWrites(Tail(es))

IndexBlockWrites(idx) == <<EncU64(Len(idx))>> \o EntriesWrites(idx)

RECURSIVE Flatten(_)
Flatten(writes) ==
    IF writes = <<>> THEN <<>> ELSE Head(writes) \o Flatten(Tail(writes))

\* serialize_into(file, value): the bytes of the file afterwards.  failAt is
\* the number of the write call that fails, counted from the first write of
\* this call (none fails when it is outside 1..Len(writes)): the failing
\* write leaves no bytes and serialize_into returns at once with the error.
serialize_into(file, writes, failAt) ==
    file \o Flatten(IF failAt >= 1 /\ failAt <= Len(writes)
                    THEN SubSeq(writes, 1, failAt - 1)
                    ELSE writes)

\* The loop of serialize_memtable over the blocks.  failAt: the number of the
\* write call that fails, counted from the next one.  The result of every
\* serialize_into is dropped, so the loop goes on after a failure.
RECURSIVE serialize_blocks(_, _, _, _, _)
serialize_blocks(blocks, file, idx, off, failAt) ==
    IF blocks = <<>>
    THEN [file |-> file, idx |-> idx, off |-> off, failAt |-> failAt]
    ELSE With(Block_first_key(Head(blocks)), LAMBDA k :
         IF IsSome(k)
         THEN With(BlockWrites(Head(blocks)), LAMBDA writes :
              serialize_blocks(Tail(blocks),
                               serialize_into(file, writes, failAt),
                               IndexBlock_insert(idx, Unwrap(k), off),
                               off + serialized_size(EncBlock(Head(blocks))),
                               failAt - Len(writes)))
         ELSE serialize_blocks(Tail(blocks), file, idx, off, failAt))

\* Database::serialize_memtable: the bytes of the file afterwards.  failAt is
\* the number of the write call of the flush that fails (0: none).
Database_serialize_memtable(memtable, file, failAt) ==
    With(serialize_blocks(Memtable_to_blocks(memtable), file, IndexBlock_new,
                          0, failAt), LAMBDA r :
    With(IndexBlockWrites(r.idx), LAMBDA idxWrites :
    With(serialized_size(EncIndexBlock(r.idx)), LAMBDA idx_size :
         serialize_into(serialize_into(r.file, idxWrites, r.failAt),
                        <<EncU64(idx_size)>>, r.failAt - Len(idxWrites)))))

\* The number of write calls serialize_memtable makes when none fails.
serialize_memtable_writes(memtable) ==
    With(serialize_blocks(Memtable_to_blocks(memtable), <<>>, IndexBlock_new,
                          0, 0), LAMBDA r :
         Len(IndexBlockWrites(r.idx)) + 1 - r.failAt)

\* The faults of a call of Database::set: the system call that fails.
NoFault == [kind |-> "none", write |-> 0]

\* The write of the log record fails.
WalFault == [kind |-> "wal", write |-> 0]

\* File::create fails.
CreateFault == [kind |-> "create", write |-> 0]

\* The n-th write call of the flush fails.
WriteFault(n) == [kind |-> "write", write |-> n]

\* Mutant: the flush is made when len alone is over memtable_size.
M_NeedsFlush_len(memtable, key, value, memtable_size) ==
    memtable.len > memtable_size

\* Mutant: the flush is made when the sum reaches memtable_size.
M_NeedsFlush(memtable, key, value, memtable_size) ==
    memtable.len + KVPair_len(KVPair_new(key, value)) >= memtable_size

\* The test of Database::set that decides on a flush.
NeedsFlush(memtable, key, value, memtable_size) ==
    memtable.len + KVPair_len(KVPair_new(key, value)) > memtable_size

\* The loop of Database::get over the SSTable handles, in the order of the
\* Vec.  An Err of a handle is skipped; a panic ends the call.  openFail is
\* the index of the handle whose File::open fails (0: none); seekOk: the
\* file system allows the offsets of the class Huge.
RECURSIVE get_loop(_, _, _, _, _, _)
get_loop(sstables, fs, key, i, openFail, seekOk) ==
    IF i > Len(sstables)
    THEN [res |-> NotFound, sstables |-> sstables, probes |-> i - 1]
    ELSE With(SSTable_get(sstables[i], fs, key, openFail = i, seekOk),
              LAMBDA r :
         IF r.res.kind \in {"Ok", "Panic"}
         THEN [res |-> r.res, sstables |-> [sstables EXCEPT ![i] = r.sst],
               probes |-> i]
         ELSE get_loop([sstables EXCEPT ![i] = r.sst], fs, key, i + 1,
                       openFail, seekOk))

\* Mutant: the SSTable handles are probed before the memtable is looked at.
M_Database_get(memtable, sstables, fs, key, openFail, seekOk) ==
    With(get_loop(sstables, fs, key, 1, openFail, seekOk), LAMBDA r :
         IF r.res.kind \in {"Ok", "Panic"} \/ key \notin DOMAIN memtable.table
         THEN r
         ELSE [r EXCEPT !.res = Ok(memtable.table[key])])

\* Mutant: the handles that are not open after the lookup (their File::open
\* failed, or they were not reached) are taken off the stack.
M_Database_get_drop(memtable, sstables, fs, key, openFail, seekOk) ==
    IF key \in DOMAIN memtable.table
    THEN [res |-> Ok(memtable.table[key]), sstables |-> sstables, probes |-> 0]
    ELSE With(get_loop(sstables, fs, key, 1, openFail, seekOk), LAMBDA r :
         [r EXCEPT !.sstables = SelectSeq(r.sstables, LAMBDA h : h.file)])

\* Database::get: the result, the handles afterwards and the number of
\* handles probed.
Database_get(memtable, sstables, fs, key, openFail, seekOk) ==
    IF key \in DOMAIN memtable.table
    THEN [res |-> Ok(memtable.table[key]), sstables |-> sstables, probes |-> 0]
    ELSE get_loop(sstables, fs, key, 1, openFail, seekOk)

\* Mutant: the memtable is kept after the flush (no Memtable::new).
M_Database_set(conf, memtable, sstables, fs, key, value, fault) ==
    With([fs EXCEPT ![LogFilename(conf.name)] =
             Log_record(fs[LogFilename(conf.name)], key, value,
                        fault.kind = "wal")],
         LAMBDA fs1 :
    IF NeedsFlush(memtable, key, value, conf.memtable_size)
    THEN With(DbFilename(conf.name), LAMBDA filename :
         IF fault.kind = "create"
         THEN [res |-> IOError, memtable |-> memtable,
               sstables |-> sstables, fs |-> fs1, flushed |-> FALSE]
         ELSE With(Database_serialize_memtable(memtable, <<>>, fault.write),
                   LAMBDA bytes :
              [res |-> Ok(<<>>),
               memtable |-> Memtable_insert(memtable, key, value),
               sstables |-> Append(sstables, SSTable_new(filename)),
               fs |-> [n \in DOMAIN fs1 \cup {filename} |->
                          IF n = filename THEN bytes ELSE fs1[n]],
               flushed |-> TRUE]))
    ELSE [res |-> Ok(<<>>),
          memtable |-> Memtable_insert(memtable, key, value),
          sstables |-> sstables, fs |-> fs1, flushed |-> FALSE])

\* Database::set: the state afterwards.  fault is the system call that
\* fails during the call: the write of the log record, File::create, one of
\* the write calls of the flush, or none.
Database_set(conf, memtable, sstables, fs, key, value, fault) ==
    With([fs EXCEPT ![LogFilename(conf.name)] =
             Log_record(fs[LogFilename(conf.name)], key, value,
                        fault.kind = "wal")],
         LAMBDA fs1 :
    IF NeedsFlush(memtable, key, value, conf.memtable_size)
    THEN With(DbFilename(conf.name), LAMBDA filename :
         IF fault.kind = "create"
         THEN [res |-> IOError, memtable |-> memtable,
               sstables |-> sstables, fs |-> fs1, flushed |-> FALSE]
         ELSE With(Database_serialize_memtable(memtable, <<>>, fault.write),
                   LAMBDA bytes :
              [res |-> Ok(<<>>),
               memtable |-> Memtable_insert(Memtable_new(conf.block_size),
                                            key, value),
               sstables |-> Append(sstables, SSTable_new(filename)),
               fs |-> [n \in DOMAIN fs1 \cup {filename} |->
                          IF n = filename THEN bytes ELSE fs1[n]],
               flushed |-> TRUE]))
    ELSE [res |-> Ok(<<>>),
          memtable |-> Memtable_insert(memtable, key, value),
          sstables |-> sstables, fs |-> fs1, flushed |-> FALSE])

(***************************************************************************)
(* The state.                                                              *)
(*   conf      the DatabaseConfig                                          *)
(*   fs        the files: name -> bytes                                    *)
(*   alive     the process runs and holds a Database                       *)
(*   memtable  Database.memtable                                           *)
(*   sstables  Database.sstables                                           *)
(* History kept for the properties:                                        *)
(*   hist      the (k, v) of the set calls that returned Ok, in call order *)
(*   flushes   the memtable and the fault of every flush that wrote a file *)
(*   lastOp    the last call and its result                                *)
(*   nSets, nFlushTries, faults, crashes, walFailed   counters and flags   *)
(***************************************************************************)
VARIABLES conf, fs, alive, memtable, sstables,
          hist, flushes, lastOp, nSets, nFlushTries, faults, crashes, walFailed

vars == <<conf, fs, alive, memtable, sstables,
          hist, flushes, lastOp, nSets, nFlushTries, faults, crashes, walFailed>>

NoOp == [op |-> "none", key |-> <<>>, val |-> <<>>, res |-> Ok(<<>>),
         flushed |-> FALSE, fault |-> "none", probes |-> 0, prevSet |-> None]

\* Database::new on the files fs: the log is created when it is missing.
Database_new(c, files) ==
    LET logname == LogFilename(c.name) IN
    [memtable |-> Memtable_new(c.block_size),
     sstables |-> <<>>,
     fs |-> [n \in DOMAIN files \cup {logname} |->
                IF n \in DOMAIN files THEN files[n] ELSE <<>>]]

Init ==
    /\ conf \in [memtable_size : MemtableSizes, block_size : BlockSizes,
                 name : {DbName}]
    /\ LET db == Database_new(conf, [n \in {} |-> <<>>]) IN
       /\ fs = db.fs
       /\ memtable = db.memtable
       /\ sstables = db.sstables
    /\ alive = TRUE
    /\ hist = <<>>
    /\ flushes = <<>>
    /\ lastOp = NoOp
    /\ nSets = 0
    /\ nFlushTries = 0
    /\ faults = 0
    /\ crashes = 0
    /\ walFailed = FALSE

\* The faults that can happen in set(key, value) in the current state.
SetFaults(key, value) ==
    {NoFault} \cup
    (IF faults + crashes < MaxInjected
     THEN {WalFault} \cup
          (IF NeedsFlush(memtable, key, value, conf.memtable_size)
           THEN {CreateFault} \cup
                {WriteFault(n) : n \in 1..serialize_memtable_writes(memtable)}
           ELSE {})
     ELSE {})

\* The call set(key, value) in which the system call fault fails.
SetCall(key, value, fault) ==
    LET r == Database_set(conf, memtable, sstables, fs, key, value, fault)
        tried == NeedsFlush(memtable, key, value, conf.memtable_size)
    IN  /\ memtable' = r.memtable
        /\ sstables' = r.sstables
        /\ fs' = r.fs
        /\ hist' = IF r.res.kind = "Ok"
                   THEN Append(hist, KVPair_new(key, value)) ELSE hist
        /\ flushes' = IF r.flushed
                      THEN Append(flushes, [table |-> memtable.table,
                                            len |-> memtable.len,
                                            fault |-> fault])
                      ELSE flushes
        /\ lastOp' = [op |-> "set", key |-> key, val |-> value,
                      res |-> r.res, flushed |-> r.flushed,
                      fault |-> fault.kind, probes |-> 0,
                      prevSet |-> IF lastOp.op = "set" /\ lastOp.res.kind = "Ok"
                                  THEN Some(KVPair_new(lastOp.key, lastOp.val))
                                  ELSE None]
        /\ nSets' = nSets + 1
        /\ nFlushTries' = nFlushTries + (IF tried THEN 1 ELSE 0)
        /\ faults' = faults + (IF fault = NoFault THEN 0 ELSE 1)
        /\ walFailed' = (walFailed \/ fault = WalFault)
        /\ UNCHANGED <<conf, alive, crashes>>

\* A call of Database::set, with or without a failing system call.
Set ==
    /\ alive
    /\ nSets < MaxFaultSets
    /\ \E key \in Keys, value \in Values :
       \E fault \in SetFaults(key, value) : SetCall(key, value, fault)

\* A call of Database::set in which no system call fails.
SetNoFault ==
    /\ alive
    /\ nSets < MaxSets
    /\ \E key \in Keys, value \in Values : SetCall(key, value, NoFault)

\* The handles whose File::open can fail in get(key) in the current state.
OpenFaults(key) ==
    {0} \cup
    (IF faults + crashes < MaxInjected /\ key \notin DOMAIN memtable.table
     THEN {i \in 1..Len(sstables) : ~sstables[i].file}
     ELSE {})

\* The results get(key) can have in the current state when the File::open of
\* handle openFail fails (0: none fails): the result on a file system that
\* allows the offsets of the class Huge and, when a handle the call probed
\* had such an offset to seek to, the result on a file system that rejects
\* them.  Without such a seek the two file systems do the same.
GetResults(key, openFail) ==
    LET r == Database_get(memtable, sstables, fs, key, openFail, TRUE) IN
    IF \E i \in DOMAIN r.sstables :
          /\ i <= r.probes
          /\ IsSome(r.sstables[i].idx)
          /\ IndexBlock_get_offset_for(Unwrap(r.sstables[i].idx), key)
                = Some(Huge)
    THEN {r, Database_get(memtable, sstables, fs, key, openFail, FALSE)}
    ELSE {r}

\* The call get(key) in which the File::open of handle openFail fails (0:
\* none fails).  A panic ends the process.
GetCall(key, openFail) ==
    \E r \in GetResults(key, openFail) :
    /\ lastOp' = [op |-> "get", key |-> key, val |-> <<>>,
                  res |-> r.res, flushed |-> FALSE,
                  fault |-> IF openFail = 0 THEN "none" ELSE "open",
                  probes |-> r.probes, prevSet |-> None]
    /\ faults' = faults + (IF openFail = 0 THEN 0 ELSE 1)
    /\ IF r.res.kind = "Panic"
       THEN /\ alive' = FALSE
            /\ memtable' = Memtable_new(conf.block_size)
            /\ sstables' = <<>>
       ELSE /\ alive' = TRUE
            /\ memtable' = memtable
            /\ sstables' = r.sstables
    /\ UNCHANGED <<conf, fs, hist, flushes, nSets, nFlushTries, crashes,
                   walFailed>>

\* A call of Database::get, with or without a failing File::open.
Get ==
    /\ alive
    /\ \E key \in Keys : \E openFail \in OpenFaults(key) : GetCall(key, openFail)

\* A call of Database::get in which no File::open fails.
GetNoFault ==
    /\ alive
    /\ \E key \in Keys : GetCall(key, 0)

\* The process is killed between two calls: the Database is lost, the files
\* stay.
Crash ==
    /\ alive
    /\ faults + crashes < MaxInjected
    /\ alive' = FALSE
    /\ memtable' = Memtable_new(conf.block_size)
    /\ sstables' = <<>>
    /\ crashes' = crashes + 1
    /\ lastOp' = [NoOp EXCEPT !.op = "crash"]
    /\ UNCHANGED <<conf, fs, hist, flushes, nSets, nFlushTries, faults, walFailed>>

\* The process is started again: Database::new with the same configuration.
\* Neither Database::recover nor Log::recover_memtable is called.
Reopen ==
    /\ ~alive
    /\ LET db == Database_new(conf, fs) IN
       /\ fs' = db.fs
       /\ memtable' = db.memtable
       /\ sstables' = db.sstables
    /\ alive' = TRUE
    /\ lastOp' = [NoOp EXCEPT !.op = "new"]
    /\ UNCHANGED <<conf, hist, flushes, nSets, nFlushTries, faults, crashes, walFailed>>

Next == Set \/ Get \/ Crash \/ Reopen

\* Every run of at most MaxFaultSets sets: calls, failing system calls, kills
\* and restarts.
Spec == Init /\ [][Next]_vars

NextCalls == SetNoFault \/ GetNoFault

\* The runs of one process in which no system call fails.
SpecCalls == Init /\ [][NextCalls]_vars

\* A call of Database::set in which no system call fails, in a run of at
\* most MaxProbeSets sets.
SetNoFaultProbe ==
    /\ alive
    /\ nSets < MaxProbeSets
    /\ \E key \in Keys, value \in Values : SetCall(key, value, NoFault)

NextProbe == SetNoFaultProbe \/ Get

\* The runs of one process with a few sets and with gets in which the
\* File::open of a handle can fail.
SpecProbe == Init /\ [][NextProbe]_vars

(***************************************************************************)
(* Definitions shared by the properties.                                   *)
(***************************************************************************)
\* The log file of the database.
TheLog == fs[LogFilename(conf.name)]

\* What Database::get returns for k in the current state when no open fails.
GetNow(k) == Database_get(memtable, sstables, fs, k, 0, TRUE).res

\* The reference database that never flushes: the value of the most recent
\* successful set of k, NotFound when there is none.
RECURSIVE RefGet(_, _)
RefGet(h, k) ==
    IF h = <<>> THEN NotFound
    ELSE IF h[Len(h)].k = k THEN Ok(h[Len(h)].v)
    ELSE RefGet(SubSeq(h, 1, Len(h) - 1), k)

\* The memtable obtained by inserting the pairs of h, in order, into m.
RECURSIVE ReplayOn(_, _)
ReplayOn(m, h) ==
    IF h = <<>> THEN m
    ELSE ReplayOn(Memtable_insert(m, Head(h).k, Head(h).v), Tail(h))

\* The pairs a log holds: decoded from the start until a decode fails.
RECURSIVE LogRecordsFrom(_, _)
LogRecordsFrom(log, p) ==
    With(DecKVPair(log, p), LAMBDA d :
         IF ~d.ok THEN <<>> ELSE <<d.val>> \o LogRecordsFrom(log, d.pos))

LogRecords(log) == LogRecordsFrom(log, 0)

LastSetOk == lastOp.op = "set" /\ lastOp.res.kind = "Ok"

(***************************************************************************)
(* C1  Flush transparency.  In a run without I/O faults and crashes, get   *)
(* returns for every key what the database that never flushes returns: the *)
(* value of the most recent set, NotFound for a key never set.             *)
(* The code refutes it: every flush writes the same file.                  *)
(***************************************************************************)
C1_FlushTransparency ==
    (alive /\ faults = 0 /\ crashes = 0)
        => \A k \in Keys : GetNow(k) = RefGet(hist, k)

(***************************************************************************)
(* C2  Last-write-wins.  After set(k, v1) immediately followed by          *)
(* set(k, v2), both Ok, get(k) returns v2, whether or not a flush happened *)
(* in either call.                                                         *)
(***************************************************************************)
C2_LastWriteWins ==
    (alive /\ LastSetOk /\ IsSome(lastOp.prevSet)
           /\ Unwrap(lastOp.prevSet).k = lastOp.key)
        => GetNow(lastOp.key) = Ok(lastOp.val)

\* v1 went to the SSTable file in the flush of the second set; v2 is in the
\* memtable only.
C2_Witness ==
    /\ alive /\ LastSetOk /\ IsSome(lastOp.prevSet)
    /\ Unwrap(lastOp.prevSet).k = lastOp.key
    /\ Unwrap(lastOp.prevSet).v # lastOp.val
    /\ lastOp.flushed
    /\ lastOp.key \in DOMAIN flushes[Len(flushes)].table
    /\ GetNow(lastOp.key) = Ok(lastOp.val)

(***************************************************************************)
(* C3  Read-your-writes.  Right after a set(k, v) that returned Ok and did *)
(* not flush, get(k) returns Ok(v) from the memtable: no SSTable handle is *)
(* probed or changed.                                                      *)
(***************************************************************************)
C3_ReadYourWrites ==
    (alive /\ LastSetOk /\ ~lastOp.flushed)
        => LET r == Database_get(memtable, sstables, fs, lastOp.key, 0, TRUE) IN
           /\ r.res = Ok(lastOp.val)
           /\ r.probes = 0
           /\ r.sstables = sstables

\* The case with an SSTable on the stack that holds another value for k.
C3_Witness ==
    /\ alive /\ LastSetOk /\ ~lastOp.flushed
    /\ sstables # <<>>
    /\ \E i \in 1..Len(flushes) :
          /\ lastOp.key \in DOMAIN flushes[i].table
          /\ flushes[i].table[lastOp.key] # lastOp.val
    /\ Database_get(memtable, sstables, fs, lastOp.key, 0, TRUE).probes = 0

(***************************************************************************)
(* C4  Crash survival.  After sets that caused no flush, a crash and a     *)
(* reopen, get(k) returns the last value set for every key set before.     *)
(* The code refutes it: Database::new replays nothing.                     *)
(***************************************************************************)
C4_CrashSurvival ==
    (alive /\ lastOp.op = "new" /\ nFlushTries = 0 /\ faults = 0)
        => \A k \in Keys :
              RefGet(hist, k).kind = "Ok" => GetNow(k) = RefGet(hist, k)

(***************************************************************************)
(* C5  WAL replay equivalence.  While no flush was tried and no log write  *)
(* failed, Log::recover_memtable on the log returns the memtable (map and  *)
(* len) that inserting the pairs of the successful sets in call order into *)
(* an empty memtable gives.                                                *)
(***************************************************************************)
C5_WalReplayEquivalence ==
    (nFlushTries = 0 /\ ~walFailed)
        => Log_recover_memtable(TheLog, conf.block_size)
               = ReplayOn(Memtable_new(conf.block_size), hist)

\* A log of three sets in which a key was overwritten with another value.
C5_Witness ==
    /\ nFlushTries = 0 /\ ~walFailed
    /\ Len(hist) = 3
    /\ hist[1].k = hist[3].k /\ hist[1].v # hist[3].v
    /\ Log_recover_memtable(TheLog, conf.block_size).table[hist[1].k] = hist[3].v

(***************************************************************************)
(* C7  Write-ahead ordering.  Every entry (k, v) of the memtable has a     *)
(* matching record in the log, also when the log write can fail.           *)
(* The code refutes it: Log::record drops the result of the write.         *)
(***************************************************************************)
C7_WriteAheadOrdering ==
    alive => \A k \in DOMAIN memtable.table :
                \E i \in 1..Len(LogRecords(TheLog)) :
                   LogRecords(TheLog)[i] = KVPair_new(k, memtable.table[k])

(***************************************************************************)
(* C8  When the log write of set(k, v) fails, set returns an error and the *)
(* memtable and the SSTable stack are as before the call.                  *)
(* The code refutes it: the set goes on and returns Ok.                    *)
(***************************************************************************)
C8_WalFailureLeavesState ==
    [][(nSets' = nSets + 1 /\ lastOp'.fault = "wal")
          => (lastOp'.res.kind # "Ok" /\ memtable' = memtable
                                      /\ sstables' = sstables)]_vars

(***************************************************************************)
(* C9  When a step of the flush in set fails (File::create, a write of a    *)
(* block, of the index or of the trailer), set returns an error, the       *)
(* memtable is as before the call and every key readable before is         *)
(* readable after.                                                         *)
(* The code refutes it for the writes: their results are dropped.          *)
(***************************************************************************)
C9_FlushFailureLeavesState ==
    [][(nSets' = nSets + 1
           /\ lastOp'.fault \in {"create", "write"})
          => /\ lastOp'.res.kind # "Ok"
             /\ memtable' = memtable
             /\ \A k \in Keys :
                   Database_get(memtable, sstables, fs, k, 0,
                                TRUE).res.kind = "Ok"
                      => Database_get(memtable', sstables', fs', k, 0,
                                      TRUE).res.kind = "Ok"]_vars

(***************************************************************************)
(* C10  In a run without I/O faults and crashes, get(k) returns NotFound   *)
(* only when k is in neither the memtable nor the data of any flush so     *)
(* far, and get of a key never set returns NotFound.                       *)
(* The code refutes it: a flush overwrites the file of the flush before.   *)
(***************************************************************************)
C10_NotFoundOnlyWhenAbsent ==
    (alive /\ faults = 0 /\ crashes = 0)
        => \A k \in Keys :
              /\ GetNow(k) = NotFound
                    => /\ k \notin DOMAIN memtable.table
                       /\ \A i \in 1..Len(flushes) :
                             k \notin DOMAIN flushes[i].table
              /\ RefGet(hist, k) = NotFound => GetNow(k) = NotFound

\* The lookup the stack order asks for: the memtable, then the handles from
\* the one pushed last (the newest) down to the first (the oldest).
RECURSIVE newest_first_loop(_, _, _, _)
newest_first_loop(stack, files, key, i) ==
    IF i < 1
    THEN [res |-> NotFound, sstables |-> stack, probes |-> Len(stack)]
    ELSE With(SSTable_get(stack[i], files, key, FALSE, TRUE), LAMBDA r :
         IF r.res.kind \in {"Ok", "Panic"}
         THEN [res |-> r.res, sstables |-> [stack EXCEPT ![i] = r.sst],
               probes |-> Len(stack) - i + 1]
         ELSE newest_first_loop([stack EXCEPT ![i] = r.sst], files, key, i - 1))

NewestFirstGet(m, stack, files, key) ==
    IF key \in DOMAIN m.table
    THEN [res |-> Ok(m.table[key]), sstables |-> stack, probes |-> 0]
    ELSE newest_first_loop(stack, files, key, Len(stack))

(***************************************************************************)
(* C11  Newest-first probing.  On a memtable miss Database::get probes the *)
(* handles from the newest to the oldest and stops at the first that has   *)
(* the key: its result, the number of handles it probed and the handles it *)
(* opened are those of the newest-first lookup.                            *)
(* The code refutes it: the loop runs over the Vec from its first element, *)
(* the oldest handle.                                                      *)
(***************************************************************************)
C11_NewestFirstProbing ==
    alive => \A k \in Keys :
                Database_get(memtable, sstables, fs, k, 0, TRUE)
                   = NewestFirstGet(memtable, sstables, fs, k)

(***************************************************************************)
(* C12  SSTable immutability.  No step changes the bytes of the file that  *)
(* a handle on the stack reads, and SSTable::get(k) on a handle that stays *)
(* on the stack returns after the step what it returned before it, for     *)
(* every key.                                                              *)
(* The code refutes it: the next flush truncates and rewrites the file.    *)
(***************************************************************************)
C12_SSTableImmutable ==
    [][\A i \in 1..Len(sstables) :
          i <= Len(sstables')
             => /\ fs'[sstables[i].filename] = fs[sstables[i].filename]
                /\ \A k \in Keys :
                      SSTable_get(sstables'[i], fs', k, FALSE, TRUE).res
                         = SSTable_get(sstables[i], fs, k, FALSE, TRUE).res]_vars

(***************************************************************************)
(* C13  No panic.  No call of Database::set or Database::get ends in a     *)
(* panic, whatever system call failed before: every failure is returned as *)
(* an Error value.                                                         *)
(* The code refutes it: the from_file functions unwrap the decode result.  *)
(***************************************************************************)
C13_NoPanic == lastOp.res.kind # "Panic"

\* A step is a call of Database::set.
IsSetStep == nSets' = nSets + 1

\* The file names that exist and their bytes.
Files(files) == {<<n, files[n]>> : n \in DOMAIN files}

(***************************************************************************)
(* C16  Flush trigger.  set(k, v) flushes exactly when memtable.len +      *)
(* len(k) + len(v), taken before the insert, is strictly greater than      *)
(* memtable_size: then one handle is pushed and the SSTable file holds the *)
(* serialized old memtable; otherwise the SSTable stack and the SSTable    *)
(* file are as before the call.                                            *)
(***************************************************************************)
C16_FlushTrigger ==
    [][IsSetStep =>
         IF memtable.len + Len(lastOp'.key) + Len(lastOp'.val)
               > conf.memtable_size
         THEN /\ sstables' = Append(sstables,
                                    SSTable_new(DbFilename(conf.name)))
              /\ fs'[DbFilename(conf.name)]
                    = Database_serialize_memtable(memtable, <<>>, 0)
         ELSE /\ sstables' = sstables
              /\ Files(fs') \ {<<LogFilename(conf.name),
                                 fs'[LogFilename(conf.name)]>>}
                    = Files(fs) \ {<<LogFilename(conf.name),
                                     fs[LogFilename(conf.name)]>>}]_vars

\* Three sets: the second filled the memtable to memtable_size exactly and
\* did not flush, the third flushed.
C16_Witness ==
    /\ LastSetOk /\ lastOp.flushed
    /\ Len(hist) = 3 /\ nSets = 3
    /\ Len(sstables) = 1
    /\ KVPair_len(hist[1]) + KVPair_len(hist[2]) = conf.memtable_size
    /\ DOMAIN memtable.table = {lastOp.key}

(***************************************************************************)
(* C23  Errors of a probe are surfaced.  A get that missed the memtable,   *)
(* went through every handle and had the File::open of one of them fail    *)
(* returns that error (IOError), not NotFound and not the value of another *)
(* handle.                                                                 *)
(* The code refutes it: the loop of Database::get skips every Err.         *)
(***************************************************************************)
C23_ProbeErrorSurfaced ==
    (alive /\ lastOp.op = "get" /\ lastOp.fault = "open"
           /\ lastOp.probes = Len(sstables))
        => lastOp.res.kind = "IOError"

(***************************************************************************)
(* C24  Log content.  While no write of the log failed, the log is exactly *)
(* the encoded (k, v) records of the set calls that returned Ok, in call   *)
(* order: a flush leaves it alone and a set that returned an error adds no *)
(* record.                                                                 *)
(* The code refutes it: the record is written before File::create of the   *)
(* flush can fail.                                                         *)
(***************************************************************************)
C24_LogContent ==
    ~walFailed => /\ TheLog = EncPairs(hist)
                  /\ LogRecords(TheLog) = hist

(***************************************************************************)
(* The round-trip specification: the flush of Database::set and            *)
(* SSTable::get applied to every memtable over Keys and Values and every   *)
(* block_size up to MaxBlockSize.  An initial state is the state of the    *)
(* program after Database::new and one set per entry of the table, in key  *)
(* order, under a memtable_size the table just fits; the next set flushes  *)
(* that memtable.                                                          *)
(***************************************************************************)
AllTables == UNION {[S -> Values] : S \in SUBSET Keys}

RECURSIVE TableLen(_, _)
TableLen(t, ks) ==
    IF ks = <<>> THEN 0
    ELSE Len(Head(ks)) + Len(t[Head(ks)]) + TableLen(t, Tail(ks))

RECURSIVE TablePairs(_, _)
TablePairs(t, ks) ==
    IF ks = <<>> THEN <<>>
    ELSE <<KVPair_new(Head(ks), t[Head(ks)])>> \o TablePairs(t, Tail(ks))

\* The Database after the sets of pairs, in order, none of them failing.
RECURSIVE AfterSets(_, _, _)
AfterSets(c, db, pairs) ==
    IF pairs = <<>> THEN db
    ELSE AfterSets(c,
                   Database_set(c, db.memtable, db.sstables, db.fs,
                                Head(pairs).k, Head(pairs).v, NoFault),
                   Tail(pairs))

InitRT ==
    \E t \in AllTables, bs \in 1..MaxBlockSize :
       LET ks == SortedKeys(DOMAIN t)
           c == [memtable_size |-> TableLen(t, ks), block_size |-> bs,
                 name |-> DbName]
           db == AfterSets(c, Database_new(c, [n \in {} |-> <<>>]),
                           TablePairs(t, ks))
       IN  /\ conf = c
           /\ fs = db.fs
           /\ memtable = db.memtable
           /\ sstables = db.sstables
           /\ hist = TablePairs(t, ks)
           /\ nSets = Len(ks)
    /\ alive = TRUE
    /\ flushes = <<>>
    /\ lastOp = NoOp
    /\ nFlushTries = 0
    /\ faults = 0
    /\ crashes = 0
    /\ walFailed = FALSE

\* The call of Database::set that flushes the memtable of the initial state:
\* the memtable is at memtable_size, so the set of any pair flushes it.
FlushingSet ==
    /\ alive
    /\ sstables = <<>>
    /\ \E key \in Keys, value \in Values : SetCall(key, value, NoFault)

\* SSTable::get on the handle of the file.
SSTableGet ==
    /\ sstables # <<>>
    /\ \E key \in Keys, seekOk \in BOOLEAN :
          LET r == SSTable_get(sstables[1], fs, key, FALSE, seekOk) IN
          /\ sstables' = <<r.sst>>
          /\ lastOp' = [NoOp EXCEPT !.op = "sstget", !.key = key,
                                    !.res = r.res, !.probes = 1]
    /\ UNCHANGED <<conf, fs, alive, memtable, hist, flushes, nSets,
                   nFlushTries, faults, crashes, walFailed>>

\* The keys looked up in an index: the keys of the model, the empty string,
\* "aa" (between "a" and "ab"), "ac" (between "ab" and "b") and "c" (above
\* every key).
ProbeKeys == Keys \cup {<<>>, <<97, 97>>, <<97, 99>>, <<99>>}

\* IndexBlock::get_offset_for on the index the handle has loaded.
GetOffsetFor ==
    /\ sstables # <<>>
    /\ IsSome(sstables[1].idx)
    /\ \E key \in ProbeKeys :
          lastOp' = [NoOp EXCEPT
                        !.op = "offset", !.key = key,
                        !.val = IndexBlock_get_offset_for(
                                    Unwrap(sstables[1].idx), key)]
    /\ UNCHANGED <<conf, fs, alive, memtable, sstables, hist, flushes, nSets,
                   nFlushTries, faults, crashes, walFailed>>

NextRT == FlushingSet \/ SSTableGet \/ GetOffsetFor

SpecRT == InitRT /\ [][NextRT]_vars

\* What reading table t at k gives.
TableGet(t, k) == IF k \in DOMAIN t THEN Ok(t[k]) ELSE NotFound

(***************************************************************************)
(* C6  SSTable round-trip.  After serialize_memtable wrote the memtable M  *)
(* to a fresh file, SSTable::get(k) on a fresh handle of the file returns  *)
(* M[k] for every key of M and NotFound for every other key; so does every *)
(* SSTable::get made on the handle kept.                                   *)
(***************************************************************************)
C6_SSTableRoundTrip ==
    flushes # <<>>
        => /\ \A k \in Keys :
                 SSTable_get(SSTable_new(DbFilename(conf.name)), fs, k, FALSE,
                             TRUE).res
                    = TableGet(flushes[1].table, k)
           /\ lastOp.op = "sstget"
                 => lastOp.res = TableGet(flushes[1].table, lastOp.key)

\* A get of a key that lies between two stored keys of a file with more than
\* one block, and is not stored.
C6_Witness ==
    /\ lastOp.op = "sstget"
    /\ lastOp.res = NotFound
    /\ lastOp.key \notin DOMAIN flushes[1].table
    /\ \E k1, k2 \in DOMAIN flushes[1].table :
          StrLess(k1, lastOp.key) /\ StrLess(lastOp.key, k2)
    /\ Len(Unwrap(sstables[1].idx)) >= 2

(***************************************************************************)
(* Definitions shared by the properties of the blocks and the index.       *)
(***************************************************************************)
RECURSIVE PairsLen(_)
PairsLen(ps) ==
    IF ps = <<>> THEN 0 ELSE KVPair_len(Head(ps)) + PairsLen(Tail(ps))

\* The memtable the flush is about: the memtable of the state before the
\* flushing set, the memtable that set flushed after it.
TheMemtable ==
    IF flushes = <<>> THEN memtable
    ELSE [table |-> flushes[1].table, len |-> flushes[1].len,
          block_size |-> conf.block_size]

\* The blocks Memtable::to_blocks gives for that memtable.
TheBlocks == Memtable_to_blocks(TheMemtable)

\* The bytes of the SSTable file.
TheFile == fs[DbFilename(conf.name)]

\* The index block read back from the SSTable file.
TheIndex == IndexBlock_from_file(TheFile, 0, TRUE).val

\* The blocks read back from the SSTable file at the offsets of its index.
WrittenBlocks ==
    [i \in 1..Len(TheIndex) |-> Block_from_file(TheFile, 0, TheIndex[i].off, TRUE).val]

\* len is the sum of the record lengths and is at most bs, unless the block
\* holds one record that is longer than bs by itself.
BlockPacked(b, bs) ==
    /\ b.len = PairsLen(b.content)
    /\ \/ b.len <= bs
       \/ Len(b.content) = 1 /\ KVPair_len(b.content[1]) > bs

(***************************************************************************)
(* C14  Block-packing bound.  Every block Memtable::to_blocks produces,    *)
(* and every block the flush wrote to the file, has len (the sum of the    *)
(* key and value lengths of its records) at most block_size, except a      *)
(* block of exactly one record that is longer than block_size; the blocks  *)
(* in the file are the non-empty blocks of to_blocks.                      *)
(***************************************************************************)
C14_BlockPackingBound ==
    /\ \A i \in 1..Len(TheBlocks) : BlockPacked(TheBlocks[i], conf.block_size)
    /\ flushes # <<>>
          => /\ WrittenBlocks
                   = SelectSeq(TheBlocks, LAMBDA b : b.content # <<>>)
             /\ \A i \in 1..Len(WrittenBlocks) :
                   BlockPacked(WrittenBlocks[i], conf.block_size)

\* A file of three blocks: a record longer than block_size alone in its
\* block, between two blocks that keep the bound.
C14_Witness ==
    /\ flushes # <<>>
    /\ Len(WrittenBlocks) = 3
    /\ Len(WrittenBlocks[2].content) = 1
    /\ WrittenBlocks[2].len > conf.block_size
    /\ WrittenBlocks[1].len <= conf.block_size
    /\ WrittenBlocks[3].len <= conf.block_size

\* The index block serialize_memtable builds for that memtable.
BuiltIndex == serialize_blocks(TheBlocks, <<>>, IndexBlock_new, 0, 0).idx

\* Consecutive entries increase strictly in key and in offset.
Monotone(idx) ==
    \A i \in 1..(Len(idx) - 1) :
       /\ StrLess(idx[i].key, idx[i + 1].key)
       /\ idx[i].off < idx[i + 1].off

(***************************************************************************)
(* C15  Index monotonicity.  In the IndexBlock serialize_memtable builds,  *)
(* and in the IndexBlock read back from the file it wrote, consecutive     *)
(* entries are strictly increasing in key and strictly increasing in       *)
(* offset.                                                                 *)
(***************************************************************************)
C15_IndexMonotone ==
    /\ Monotone(BuiltIndex)
    /\ flushes # <<>> => (TheIndex = BuiltIndex /\ Monotone(TheIndex))

\* A file whose index has three entries.
C15_Witness ==
    /\ flushes # <<>>
    /\ Len(TheIndex) = 3
    /\ StrLess(TheIndex[1].key, TheIndex[2].key)
    /\ StrLess(TheIndex[2].key, TheIndex[3].key)
    /\ 0 = TheIndex[1].off /\ TheIndex[1].off < TheIndex[2].off
    /\ TheIndex[2].off < TheIndex[3].off

(***************************************************************************)
(* C17  Memtable after a flush.  After a set(k, v) that flushed, the       *)
(* memtable is a fresh one with the single entry k -> v and len = len(k) + *)
(* len(v); the handle the flush pushed reads every entry of the old        *)
(* memtable and nothing else, so (k, v) itself is not in that SSTable.     *)
(***************************************************************************)
C17_MemtableAfterFlush ==
    [][(IsSetStep /\ Len(sstables') = Len(sstables) + 1)
          => /\ memtable'
                   = [table |-> [x \in {lastOp'.key} |-> lastOp'.val],
                      len |-> Len(lastOp'.key) + Len(lastOp'.val),
                      block_size |-> conf.block_size]
             /\ \A x \in Keys :
                   SSTable_get(sstables'[Len(sstables')], fs', x, FALSE, TRUE).res
                      = TableGet(memtable.table, x)]_vars

\* The flush wrote two entries, one of them the key of the set with another
\* value; the memtable holds the new value only.
C17_Witness ==
    /\ LastSetOk /\ lastOp.flushed
    /\ Cardinality(DOMAIN flushes[Len(flushes)].table) = 2
    /\ lastOp.key \in DOMAIN flushes[Len(flushes)].table
    /\ flushes[Len(flushes)].table[lastOp.key] # lastOp.val
    /\ DOMAIN memtable.table = {lastOp.key}
    /\ memtable.table[lastOp.key] = lastOp.val
    /\ SSTable_get(sstables[Len(sstables)], fs, lastOp.key, FALSE, TRUE).res
          = Ok(flushes[Len(flushes)].table[lastOp.key])

\* The len of the memtable after the sets of h, every one of them counted:
\* a set that finds the sum over memtable_size starts again from 0.
RECURSIVE InsertedLen(_, _)
InsertedLen(h, size) ==
    IF h = <<>> THEN 0
    ELSE LET before == InsertedLen(SubSeq(h, 1, Len(h) - 1), size)
             l == KVPair_len(h[Len(h)])
         IN IF before + l > size THEN l ELSE before + l

(***************************************************************************)
(* C18  Memtable size accounting.  memtable.len is the sum of len(k) +     *)
(* len(v) over the inserts made since the memtable was created, an insert  *)
(* that overwrote a key counted again; it decreases only when a flush      *)
(* replaces the memtable.                                                  *)
(***************************************************************************)
C18_SizeAccounting ==
    [][alive' =>
         /\ memtable'.len = InsertedLen(hist', conf.memtable_size)
         /\ memtable'.len < memtable.len
               => (IsSetStep /\ Len(sstables') = Len(sstables) + 1)]_vars

\* Three inserts without a flush, two of them of the same key: len counts
\* all three, the table holds two entries.
C18_Witness ==
    /\ alive /\ nFlushTries = 0
    /\ Len(hist) = 3
    /\ Cardinality(DOMAIN memtable.table) = 2
    /\ memtable.len = PairsLen(hist)
    /\ memtable.len
          > TableLen(memtable.table, SortedKeys(DOMAIN memtable.table))

\* The offset of the entry with the greatest key that is at most k.
GreatestLeq(idx, k) ==
    LET le == {i \in 1..Len(idx) : StrLeq(idx[i].key, k)} IN
    IF le = {} THEN None
    ELSE Some(idx[CHOOSE i \in le :
                     \A j \in le : StrLeq(idx[j].key, idx[i].key)].off)

\* The reference binary search: the number of entries in idx[lo + 1 .. hi]
\* and before with a key at most k (lo entries are known to be at most k,
\* the entries after hi are known to be greater).
RECURSIVE UpperBound(_, _, _, _)
UpperBound(idx, k, lo, hi) ==
    IF lo >= hi THEN lo
    ELSE LET mid == (lo + hi) \div 2 IN
         IF StrLeq(idx[mid + 1].key, k) THEN UpperBound(idx, k, mid + 1, hi)
         ELSE UpperBound(idx, k, lo, mid)

BinarySearchOffset(idx, k) ==
    LET n == UpperBound(idx, k, 0, Len(idx)) IN
    IF n = 0 THEN None ELSE Some(idx[n].off)

(***************************************************************************)
(* C19  IndexBlock lookup.  On an index with strictly increasing keys      *)
(* get_offset_for(key) returns the offset of the entry with the greatest   *)
(* key less than or equal to key, none when key is below every entry or    *)
(* the index is empty; the result is that of a binary search.              *)
(***************************************************************************)
C19_GetOffsetFor ==
    /\ Monotone(BuiltIndex)
          => \A k \in ProbeKeys :
                /\ IndexBlock_get_offset_for(BuiltIndex, k)
                      = GreatestLeq(BuiltIndex, k)
                /\ IndexBlock_get_offset_for(BuiltIndex, k)
                      = BinarySearchOffset(BuiltIndex, k)
    /\ lastOp.op = "offset"
          => /\ Unwrap(sstables[1].idx) = BuiltIndex
             /\ lastOp.val = GreatestLeq(BuiltIndex, lastOp.key)
             /\ lastOp.val = BinarySearchOffset(BuiltIndex, lastOp.key)

\* A lookup, in an index of three entries, of a key between the second and
\* the third entry: the offset of the second entry.
C19_Witness ==
    /\ lastOp.op = "offset"
    /\ Len(BuiltIndex) = 3
    /\ StrLess(BuiltIndex[2].key, lastOp.key)
    /\ StrLess(lastOp.key, BuiltIndex[3].key)
    /\ lastOp.val = Some(BuiltIndex[2].off)
    /\ BuiltIndex[1].off < BuiltIndex[2].off
    /\ BuiltIndex[2].off < BuiltIndex[3].off

\* The blocks serialize_memtable writes: the blocks of to_blocks that have a
\* first key.
NonEmptyBlocks == SelectSeq(TheBlocks, LAMBDA b : b.content # <<>>)

\* The number of bytes the first n blocks of bs take in the file.
RECURSIVE BytesBefore(_, _)
BytesBefore(bs, n) ==
    IF n = 0 THEN 0 ELSE BytesBefore(bs, n - 1) + Len(EncBlock(bs[n]))

(***************************************************************************)
(* C20  Offset invariant.  The offset in the index entry of the i-th block *)
(* serialize_memtable writes is the sum of the serialized sizes of the     *)
(* blocks written before it (0 for the first), and it is the position in   *)
(* the file at which the bytes of that block begin.                        *)
(***************************************************************************)
C20_OffsetInvariant ==
    /\ Len(BuiltIndex) = Len(NonEmptyBlocks)
    /\ \A i \in 1..Len(BuiltIndex) :
          /\ BuiltIndex[i].off = BytesBefore(NonEmptyBlocks, i - 1)
          /\ BuiltIndex[i].key = NonEmptyBlocks[i].content[1].k
    /\ flushes # <<>>
          => /\ Len(TheIndex) = Len(NonEmptyBlocks)
             /\ \A i \in 1..Len(NonEmptyBlocks) :
                   /\ TheIndex[i].off = BytesBefore(NonEmptyBlocks, i - 1)
                   /\ SubSeq(TheFile, TheIndex[i].off + 1,
                             TheIndex[i].off + Len(EncBlock(NonEmptyBlocks[i])))
                         = EncBlock(NonEmptyBlocks[i])

\* A file of three blocks of different sizes: the third offset is not a
\* multiple of the second.
C20_Witness ==
    /\ flushes # <<>>
    /\ Len(TheIndex) = 3
    /\ TheIndex[1].off = 0
    /\ TheIndex[2].off = Len(EncBlock(WrittenBlocks[1]))
    /\ TheIndex[3].off = TheIndex[2].off + Len(EncBlock(WrittenBlocks[2]))
    /\ TheIndex[3].off # 2 * TheIndex[2].off

\* The encodings of the blocks of bs, one after the other.
RECURSIVE EncBlocks(_)
EncBlocks(bs) ==
    IF bs = <<>> THEN <<>> ELSE EncBlock(Head(bs)) \o EncBlocks(Tail(bs))

\* What the block loop of serialize_memtable leaves for that memtable: the
\* bytes written, the index and the offset.
BuiltBlocks == serialize_blocks(TheBlocks, <<>>, IndexBlock_new, 0, 0)

(***************************************************************************)
(* C21  One index entry per written block.  serialize_memtable writes and  *)
(* indexes exactly the blocks that have a first key: a block without       *)
(* records (the one block of an empty memtable, the leading block when the *)
(* first record alone exceeds block_size) leaves no bytes in the file, no  *)
(* entry in the index and the offset where it was.                         *)
(***************************************************************************)
C21_OneEntryPerWrittenBlock ==
    /\ BuiltBlocks
          = serialize_blocks(NonEmptyBlocks, <<>>, IndexBlock_new, 0, 0)
    /\ Len(BuiltBlocks.idx) = Len(NonEmptyBlocks)
    /\ BuiltBlocks.file = EncBlocks(NonEmptyBlocks)
    /\ BuiltBlocks.off = Len(BuiltBlocks.file)
    /\ flushes # <<>>
          => /\ TheFile = EncBlocks(NonEmptyBlocks)
                             \o EncIndexBlock(BuiltBlocks.idx)
                             \o EncU64(Len(EncIndexBlock(BuiltBlocks.idx)))
             /\ TheIndex = BuiltBlocks.idx
             /\ WrittenBlocks = NonEmptyBlocks

\* A flush whose to_blocks began with an empty block, followed by two blocks
\* with records: two blocks in the file, two entries, the first at offset 0.
C21_Witness ==
    /\ flushes # <<>>
    /\ Len(TheBlocks) = 3
    /\ TheBlocks[1].content = <<>>
    /\ Len(TheIndex) = 2
    /\ TheIndex[1].off = 0
    /\ Block_from_file(TheFile, 0, 0, TRUE).val = TheBlocks[2]

\* The records of the blocks of bs, one block after the other.
RECURSIVE Records(_)
Records(bs) ==
    IF bs = <<>> THEN <<>> ELSE Head(bs).content \o Records(Tail(bs))

\* The entries of that memtable in ascending key order.
TheEntries ==
    TablePairs(TheMemtable.table, SortedKeys(DOMAIN TheMemtable.table))

(***************************************************************************)
(* C22  to_blocks is an order-preserving partition.  The records of the    *)
(* blocks, block after block, are the entries of the memtable in ascending *)
(* key order, each key once: keys increase strictly within a block and     *)
(* from one block to the next, and the first record of a block has its     *)
(* smallest key.  A block after the first exists only because its first    *)
(* record would have taken the block before it over block_size, and only   *)
(* the first block can be empty.                                           *)
(***************************************************************************)
C22_ToBlocksPartition ==
    /\ Records(TheBlocks) = TheEntries
    /\ \A i \in 1..(Len(Records(TheBlocks)) - 1) :
          StrLess(Records(TheBlocks)[i].k, Records(TheBlocks)[i + 1].k)
    /\ \A i \in 1..Len(TheBlocks) :
          /\ \A j \in 1..Len(TheBlocks[i].content) :
                StrLeq(TheBlocks[i].content[1].k, TheBlocks[i].content[j].k)
          /\ i > 1
                => /\ TheBlocks[i].content # <<>>
                   /\ TheBlocks[i - 1].len + KVPair_len(TheBlocks[i].content[1])
                         > conf.block_size
                   /\ \A a \in 1..Len(TheBlocks[i - 1].content) :
                      \A b \in 1..Len(TheBlocks[i].content) :
                         StrLess(TheBlocks[i - 1].content[a].k,
                                 TheBlocks[i].content[b].k)
    /\ flushes # <<>> => Records(WrittenBlocks) = TheEntries

\* A flush of three entries in two blocks: two records in the first block,
\* the third in a block of its own.
C22_Witness ==
    /\ flushes # <<>>
    /\ Len(TheEntries) = 3
    /\ Len(WrittenBlocks) = 2
    /\ WrittenBlocks[1].content = SubSeq(TheEntries, 1, 2)
    /\ WrittenBlocks[2].content = SubSeq(TheEntries, 3, 3)

(***************************************************************************)
(* C25  The SSTable stack only grows.  A set that flushes appends exactly  *)
(* one fresh handle at the end of the stack and leaves the other handles   *)
(* as they are; every other step, a get in which a File::open failed       *)
(* included, keeps the number and the order of the handles and closes or   *)
(* forgets none of them.  A handle whose open failed stays on the stack    *)
(* and is probed again: after a get without a failure every handle the get *)
(* went through is open.                                                   *)
(***************************************************************************)
C25_StackOnlyGrows ==
    [][alive' =>
         IF IsSetStep /\ lastOp'.flushed
         THEN sstables' = Append(sstables, SSTable_new(DbFilename(conf.name)))
         ELSE /\ Len(sstables') = Len(sstables)
              /\ \A i \in 1..Len(sstables) :
                    /\ sstables'[i].filename = sstables[i].filename
                    /\ sstables[i].file => sstables'[i].file
                    /\ IsSome(sstables[i].idx)
                          => sstables'[i].idx = sstables[i].idx
              /\ (lastOp'.op = "get" /\ lastOp'.fault = "none")
                    => \A i \in 1..lastOp'.probes : sstables'[i].file]_vars

\* The one handle of the stack, whose File::open failed in an earlier get,
\* was probed again by the last get and is open now.
C25_Witness ==
    /\ alive /\ faults = 1
    /\ Len(sstables) = 1
    /\ lastOp.op = "get" /\ lastOp.fault = "none" /\ lastOp.probes = 1
    /\ lastOp.res.kind = "Ok"
    /\ sstables[1].file

(***************************************************************************)
(* C26  Memtable size bound.  memtable.len is at most memtable_size,       *)
(* unless the memtable was made by the flush of the last set and holds     *)
(* only the pair of that set, which is longer than memtable_size by        *)
(* itself.  The set after a set of such a pair flushes again, and the      *)
(* memtable it flushes holds just that pair.                               *)
(***************************************************************************)
C26_MemtableSizeBound ==
    alive =>
       /\ \/ memtable.len <= conf.memtable_size
          \/ /\ hist # <<>> /\ sstables # <<>>
             /\ memtable.table
                   = [x \in {hist[Len(hist)].k} |-> hist[Len(hist)].v]
             /\ memtable.len = KVPair_len(hist[Len(hist)])
       /\ (LastSetOk /\ Len(hist) >= 2
             /\ KVPair_len(hist[Len(hist) - 1]) > conf.memtable_size)
             => /\ lastOp.flushed
                /\ flushes[Len(flushes)].table
                      = [x \in {hist[Len(hist) - 1].k} |->
                            hist[Len(hist) - 1].v]

\* Two sets of pairs longer than memtable_size and a third set: every one
\* of the three flushed, the last one a memtable of one pair.
C26_Witness ==
    /\ alive /\ LastSetOk /\ lastOp.flushed
    /\ Len(hist) = 3 /\ Len(sstables) = 3
    /\ KVPair_len(hist[1]) > conf.memtable_size
    /\ KVPair_len(hist[2]) > conf.memtable_size
    /\ Cardinality(DOMAIN flushes[3].table) = 1
    /\ memtable.len = KVPair_len(hist[3])

====
